---- MODULE Spec2Model ----
(***************************************************************************)
(* Model of src/stephanOOP.py (class ConfigSetter): the prerequisite       *)
(* check, the assembly of the environment table, and the writers of        *)
(* ~/.c360cfg, ~/.s3cfg, download_files.sh, upload_files.sh and the ssh    *)
(* key files.                                                              *)
(*                                                                         *)
(* A Python string is modelled as a sequence of symbols.  A symbol is a    *)
(* single character, or a literal chunk of text that the program only      *)
(* ever handles as a whole (a piece of a format string, a keyword of the   *)
(* host file).  The empty string is << >>.                                 *)
(***************************************************************************)
EXTENDS Integers, Sequences, FiniteSets, TLC

VARIABLES pc, osenv, bashrc, store, config, environment, logged, files,
          status, missing_variables, paths

vars == <<pc, osenv, bashrc, store, config, environment, logged, files,
          status, missing_variables, paths>>

----------------------------------------------------------------------------
(* Bounds of the model *)

MaxLines == 3
MaxFrags == 3
MaxEnvSet == 1
MaxCfgSet == 1
MaxFiles == 2

----------------------------------------------------------------------------
(* Python string operations *)

LF == "LF"

StartsWith(s, p) == Len(s) >= Len(p) /\ SubSeq(s, 1, Len(p)) = p

EndsWith(s, p) == Len(s) >= Len(p) /\ SubSeq(s, Len(s) - Len(p) + 1, Len(s)) = p

MatchAt(s, p, i) == i + Len(p) - 1 <= Len(s) /\ SubSeq(s, i, i + Len(p) - 1) = p

\* str.find, 1-based; 0 when p does not occur
Find(s, p) ==
    IF \E i \in 1..Len(s) : MatchAt(s, p, i)
    THEN CHOOSE i \in 1..Len(s) :
            MatchAt(s, p, i) /\ \A j \in 1..(i - 1) : ~MatchAt(s, p, j)
    ELSE 0

\* p in s
Contains(s, p) == Find(s, p) # 0

\* s.replace(old, new): every non-overlapping occurrence, left to right
RECURSIVE Replace(_, _, _)
Replace(s, old, new) ==
    LET i == Find(s, old) IN
    IF i = 0 THEN s
    ELSE SubSeq(s, 1, i - 1) \o new
           \o Replace(SubSeq(s, i + Len(old), Len(s)), old, new)

\* s.split(sep, 1)[1]
AfterFirst(s, sep) == SubSeq(s, Find(s, sep) + Len(sep), Len(s))

\* s.strip("\n")
RECURSIVE StripLF(_)
StripLF(s) ==
    IF s = << >> THEN s
    ELSE IF Head(s) = LF THEN StripLF(Tail(s))
    ELSE IF s[Len(s)] = LF THEN StripLF(SubSeq(s, 1, Len(s) - 1))
    ELSE s

\* sep.join(lines)
RECURSIVE Join(_, _)
Join(lines, sep) ==
    IF lines = << >> THEN << >>
    ELSE IF Len(lines) = 1 THEN lines[1]
    ELSE lines[1] \o sep \o Join(Tail(lines), sep)

\* the lines of a written text: text.split("\n")
RECURSIVE SplitLines(_)
SplitLines(text) ==
    LET i == Find(text, <<LF>>) IN
    IF i = 0 THEN <<text>>
    ELSE <<SubSeq(text, 1, i - 1)>> \o SplitLines(SubSeq(text, i + 1, Len(text)))

\* util.string.append(value, suffix) (strappend): the suffix is appended
\* unless the value already ends with it
strappend(value, suffix) ==
    IF EndsWith(value, suffix) THEN value ELSE value \o suffix

----------------------------------------------------------------------------
(* The environment table: an OrderedDict *)

HasKey(env, k) == \E i \in 1..Len(env) : env[i].name = k

\* env.get(k, default)
Get(env, k, default) ==
    IF HasKey(env, k)
    THEN env[CHOOSE i \in 1..Len(env) : env[i].name = k].value
    ELSE default

\* env[k] = v
SetItem(env, k, v) ==
    IF HasKey(env, k)
    THEN [i \in 1..Len(env) |->
            IF env[i].name = k THEN [name |-> k, value |-> v] ELSE env[i]]
    ELSE Append(env, [name |-> k, value |-> v])

\* os.environ.get(k, default) on a process environment e
EnvGet(e, k, default) == IF k \in DOMAIN e THEN e[k] ELSE default

\* config.get(a, {}).get(b, {}) ... .get(z, default) on the nested mapping,
\* addressed by its dotted path
CfgGet(cfg, path, default) ==
    IF path \in DOMAIN cfg.values THEN cfg.values[path] ELSE default

----------------------------------------------------------------------------
(* check_prerequisites *)

prerequisite_environment_variables ==
    <<"CB_HOST", "CB_USER", "CB_PASSWORD", "CB_BUCKET",
      "C360_ENVIRONMENT", "PROCESS_DATE", "ENCRYPTION_KEY">>

Prereqs == {prerequisite_environment_variables[i] :
              i \in 1..Len(prerequisite_environment_variables)}

\* a check that takes a variable set to "" for present
IsMissingTreatEmptyAsSet(e, variable) == variable \notin DOMAIN e

\* not os.environ.get(variable, None)
IsMissing(e, variable) == variable \notin DOMAIN e \/ e[variable] = << >>

MissingLog(variable) ==
    [level |-> "log", text |-> <<"Missing environment variable ", variable>>]

\* the loop of check_prerequisites over the first n variables, from the
\* state st = [missing, logged, environment]
RECURSIVE CheckLoop(_, _, _)
CheckLoop(e, st, n) ==
    IF n = 0 THEN st
    ELSE LET prev == CheckLoop(e, st, n - 1)
             variable == prerequisite_environment_variables[n]
         IN IF IsMissing(e, variable)
            THEN [prev EXCEPT !.missing = @ + 1,
                              !.logged = Append(@, MissingLog(variable))]
            ELSE [prev EXCEPT !.environment = SetItem(@, variable, e[variable])]

check_prerequisites(e, env, log) ==
    CheckLoop(e, [missing |-> 0, logged |-> log, environment |-> env],
              Len(prerequisite_environment_variables))

----------------------------------------------------------------------------
(* assemble_environment: the cluster master address from ~/.bashrc *)

SM == "SPARK_MASTER"

HostKey == <<SM, "_HOST", "=">>
PortKey == <<SM, "_PORT", "=">>
MasterKey == <<SM, "=">>
HostPlaceholder == <<"$", SM, "_HOST">>
PortPlaceholder == <<"$", SM, "_PORT">>

\* line.split("=", 1)[1].strip("\n")
LineValue(line) == StripLF(AfterFirst(line, <<"=">>))

\* the locals before the loop: spark_host and spark_port are "", and
\* spark_master is not assigned
ParseStart ==
    [spark_host |-> << >>, spark_port |-> << >>,
     spark_master |-> << >>, master_bound |-> FALSE]

\* the body of "for line in bashrc"
ParseLine(st, line) ==
    LET s1 == IF Contains(line, HostKey)
              THEN [st EXCEPT !.spark_host = LineValue(line)] ELSE st
        s2 == IF Contains(line, PortKey)
              THEN [s1 EXCEPT !.spark_port = LineValue(line)] ELSE s1
    IN IF Contains(line, MasterKey)
       THEN [s2 EXCEPT !.spark_master = LineValue(line), !.master_bound = TRUE]
       ELSE s2

RECURSIVE ParseBashrc(_, _)
ParseBashrc(lines, n) ==
    IF n = 0 THEN ParseStart ELSE ParseLine(ParseBashrc(lines, n - 1), lines[n])

\* "if spark_master and not "$" in spark_master"
TakesMasterBranch(m) == m # << >> /\ ~Contains(m, <<"$">>)

UnresolvableLog(st) ==
    << [level |-> "log", text |-> <<"spark host: ">> \o st.spark_host],
       [level |-> "log", text |-> <<"spark port: ">> \o st.spark_port],
       [level |-> "log", text |-> <<"spark master: ">> \o st.spark_master],
       [level |-> "error", text |-> <<"Cannot build spark master.">>] >>

\* the if/else after the loop.  Reading spark_master when no line assigned
\* it raises UnboundLocalError.
ResolveMaster(st) ==
    IF ~st.master_bound
    THEN [raised |-> TRUE, spark_master |-> << >>, logged |-> << >>]
    ELSE IF TakesMasterBranch(st.spark_master)
    THEN [raised |-> FALSE,
          spark_master |->
              Replace(Replace(st.spark_master, HostPlaceholder, st.spark_host),
                      PortPlaceholder, st.spark_port),
          logged |-> << >>]
    ELSE IF st.spark_host # << >> /\ st.spark_port # << >>
    THEN [raised |-> FALSE,
          spark_master |-> <<"spark://">> \o st.spark_host \o <<":">> \o st.spark_port,
          logged |-> << >>]
    ELSE [raised |-> FALSE, spark_master |-> st.spark_master,
          logged |-> UnresolvableLog(st)]

----------------------------------------------------------------------------
(* assemble_environment: the derived keys *)

Slash == <<"/">>

\* the keys resolved as os.environ.get(name, config...get(leaf, default))
EnvCfgKeys ==
    << [name |-> "C360_CLIENT", path |-> "general.client"],
       [name |-> "CB_DATA_BUCKET", path |-> "general.couchbase.bucket"],
       [name |-> "CB_INDEX_BUCKET", path |-> "general.couchbase.index"],
       [name |-> "CB_STATISTICS_BUCKET", path |-> "general.couchbase.statistics"],
       [name |-> "S3_ENDPOINT", path |-> "general.s3.endpoint"],
       [name |-> "S3_ACCESSKEY", path |-> "general.s3.accesskey"],
       [name |-> "S3_SECRETKEY", path |-> "general.s3.secretkey"] >>

\* the keys resolved as strappend(config...get(leaf, default), "/")
PathKeys ==
    << [name |-> "C360_SOURCE_PATH", path |-> "processing.paths.source"],
       [name |-> "C360_INTERMEDIATE_PATH", path |-> "processing.paths.intermediate"],
       [name |-> "C360_TARGET_PATH", path |-> "processing.paths.final"],
       [name |-> "C360_TEMP_PATH", path |-> "processing.internal.temporary"] >>

\* the keys resolved from Configuration.get_local_path
LocalKeys ==
    << [name |-> "C360_LOCAL_SOURCE_PATH", kind |-> "source"],
       [name |-> "C360_LOCAL_INTERMEDIATE_PATH", kind |-> "intermediate"],
       [name |-> "C360_LOCAL_TARGET_PATH", kind |-> "final"] >>

\* the innermost default of each key.  The defaults {} of the source and the
\* intermediate path carry no characters, like "".
Default(e, name) ==
    CASE name = "C360_CLIENT" -> EnvGet(e, "C360_ENVIRONMENT", << >>)
      [] name = "CB_DATA_BUCKET" -> <<"c360">>
      [] name = "CB_INDEX_BUCKET" -> <<"c360">>
      [] name = "CB_STATISTICS_BUCKET" -> <<"c360_statistics">>
      [] name = "S3_SECRETKEY" -> <<"ignored">>
      [] OTHER -> << >>

ResolveEnvCfg(e, cfg, key) ==
    EnvGet(e, key.name, CfgGet(cfg, key.path, Default(e, key.name)))

ResolvePath(e, cfg, key) ==
    strappend(CfgGet(cfg, key.path, Default(e, key.name)), Slash)

\* Configuration.get_local_path(processing, kind)
get_local_path(cfg, kind) == <<"/local/", kind>>

ResolveLocal(cfg, key) == strappend(get_local_path(cfg, key.kind), Slash)

RECURSIVE AssembleEnvCfg(_, _, _, _)
AssembleEnvCfg(e, cfg, env, n) ==
    IF n = 0 THEN env
    ELSE SetItem(AssembleEnvCfg(e, cfg, env, n - 1), EnvCfgKeys[n].name,
                 ResolveEnvCfg(e, cfg, EnvCfgKeys[n]))

RECURSIVE AssemblePaths(_, _, _, _)
AssemblePaths(e, cfg, env, n) ==
    IF n = 0 THEN env
    ELSE SetItem(AssemblePaths(e, cfg, env, n - 1), PathKeys[n].name,
                 ResolvePath(e, cfg, PathKeys[n]))

RECURSIVE AssembleLocal(_, _, _)
AssembleLocal(cfg, env, n) ==
    IF n = 0 THEN env
    ELSE SetItem(AssembleLocal(cfg, env, n - 1), LocalKeys[n].name,
                 ResolveLocal(cfg, LocalKeys[n]))

\* everything assemble_environment writes after the master address
AssembleDerived(e, cfg, master, env) ==
    AssembleLocal(cfg,
        AssemblePaths(e, cfg,
            AssembleEnvCfg(e, cfg, SetItem(env, SM, master), Len(EnvCfgKeys)),
            Len(PathKeys)),
        Len(LocalKeys))

----------------------------------------------------------------------------
(* The files written under the home directory *)

NoFiles == [n \in {} |-> << >>]

\* open(name, "w").write(text), then os.chmod(name, mode) where the code
\* calls it
WriteFile(fs, name, text, mode) ==
    [n \in (DOMAIN fs) \cup {name} |->
        IF n = name THEN [text |-> text, mode |-> mode] ELSE fs[n]]

C360CFG == <<".c360cfg">>
S3CFG == <<".s3cfg">>
DOWNLOAD == <<"download_files.sh">>
UPLOAD == <<"upload_files.sh">>

(* write_config *)

Quote(variable) ==
    IF variable \in {"CB_PASSWORD", "ENCRYPTION_KEY"} THEN "'" ELSE "\""

ExportLine(entry) ==
    <<"export ", entry.name, "=", Quote(entry.name)>> \o entry.value
        \o <<Quote(entry.name), LF>>

RECURSIVE ConfigText(_, _)
ConfigText(env, n) ==
    IF n = 0 THEN << >> ELSE ConfigText(env, n - 1) \o ExportLine(env[n])

(* write_s3_config *)

\* endpoint[8:] and endpoint[7:] drop the scheme, which is one symbol here
StripScheme(endpoint) ==
    IF StartsWith(endpoint, <<"https://">>) THEN Tail(endpoint)
    ELSE IF StartsWith(endpoint, <<"http://">>) THEN Tail(endpoint)
    ELSE endpoint

S3ConfigLines(env) ==
    LET endpoint == StripScheme(Get(env, "S3_ENDPOINT", << >>)) IN
    << <<"[default]">>,
       <<"host_base = ">> \o endpoint,
       <<"host_bucket = ">> \o endpoint,
       <<"access_key = ">> \o Get(env, "S3_ACCESSKEY", << >>),
       <<"secret_key = ">> \o Get(env, "S3_SECRETKEY", <<"ignored">>),
       <<"use_https = true">>,
       <<"signature_v2 = false">>,
       <<"enable_multipart = false">> >>

----------------------------------------------------------------------------
(* write_transfer_script *)

S3A == <<"s", "3", "a", ":">>
S3N == <<"s", "3", "n", ":">>
S3 == <<"s", "3", ":">>

\* .replace("s3a:", "s3:").replace("s3n:", "s3:")
UnifyScheme(path) == Replace(Replace(path, S3A, S3), S3N, S3)

\* env.get(key, "/nfsmount/") with the scheme markers replaced
ScriptPath(env, key) == UnifyScheme(Get(env, key, <<"/nfsmount/">>))

\* path.startswith("s3")
IsRemote(path) == StartsWith(path, <<"s", "3">>)

Shebang == <<"#!/bin/bash">>
GuardD == "[ -d \""
GuardS == "[ -s \""
Fetch == "s3cmd get --force "
identifier_filename == <<"identifier.parquet">>

final_documents ==
    << <<"person.json">>, <<"organization.json">>,
       <<"index.json">>, <<"event.json">> >>

MkdirLine(t) == <<"mkdir -p ">> \o t \o <<"raw ">> \o t \o <<"parquet ">> \o t \o <<"json">>

FetchLine(remote, file_name) == <<Fetch>> \o remote \o file_name \o <<" ">> \o file_name

IndexDownloadLines(t, ip) ==
    << <<GuardD>> \o t \o <<"parquet/\" ] && cd ">> \o t \o <<"parquet/ && pwd">>,
       <<Fetch>> \o ip \o identifier_filename \o <<".tgz ">>
           \o identifier_filename \o <<".tgz">>,
       <<GuardS>> \o identifier_filename \o <<".tgz\" ] && tar -xzf ">>
           \o identifier_filename \o <<".tgz">>,
       <<GuardS>> \o identifier_filename \o <<".tgz\" ] && rm ">>
           \o identifier_filename \o <<".tgz">> >>

\* an archive line without its existence test
ArchiveLineUnguarded(name) == <<"tar -czf ">> \o name \o <<".tgz ">> \o name

\* '[ -d "{0}" ] && tar -czf {0}.tgz {0}'
ArchiveLine(name) ==
    <<GuardD>> \o name \o <<"\" ] && tar -czf ">> \o name \o <<".tgz ">> \o name

\* '[ -s "{1}.tgz" ] && s3cmd put {1}.tgz {0}{1}.tgz'
PushLine(remote, name) ==
    <<GuardS>> \o name \o <<".tgz\" ] && s3cmd put ">> \o name \o <<".tgz ">>
        \o remote \o name \o <<".tgz">>

IndexUploadLines(t, ip) ==
    << <<GuardD>> \o t \o <<"parquet\" ] && cd ">> \o t \o <<"parquet">>,
       ArchiveLine(identifier_filename),
       PushLine(ip, identifier_filename) >>

SourceCdLine(t) == <<GuardD>> \o t \o <<"raw\" ] && cd ">> \o t \o <<"raw && pwd">>

\* "\n".join(["s3cmd get ..." for file_name in holder.get("sourceFiles", [])])
RECURSIVE FetchLines(_, _, _)
FetchLines(sp, file_names, n) ==
    IF n = 0 THEN << >>
    ELSE Append(FetchLines(sp, file_names, n - 1), FetchLine(sp, file_names[n]))

SourceFiles(holder) == IF holder.has_files THEN holder.sourceFiles ELSE << >>

EntityEntry(sp, holder) ==
    LET fs == SourceFiles(holder) IN Join(FetchLines(sp, fs, Len(fs)), <<LF>>)

RECURSIVE KpiEntries(_, _, _)
KpiEntries(sp, subs, n) ==
    IF n = 0 THEN << >>
    ELSE Append(KpiEntries(sp, subs, n - 1), EntityEntry(sp, subs[n]))

\* the loop "for entity in entities"
RECURSIVE EntityEntries(_, _, _)
EntityEntries(sp, entities, n) ==
    IF n = 0 THEN << >>
    ELSE LET entity == entities[n] IN
         EntityEntries(sp, entities, n - 1) \o
            (IF entity.name # "kpis"
             THEN <<EntityEntry(sp, entity)>>
             ELSE KpiEntries(sp, entity.subs, Len(entity.subs)))

TargetCdLine(t) ==
    <<"cd ">> \o t \o <<"json || (echo \"Cannot find ">> \o t
        \o <<" for uploading final documents.\"; exit 1)">>

RECURSIVE DocumentLines(_, _)
DocumentLines(tp, n) ==
    IF n = 0 THEN << >>
    ELSE DocumentLines(tp, n - 1)
            \o <<ArchiveLine(final_documents[n]), PushLine(tp, final_documents[n])>>

download_lines(p, entities) ==
    <<Shebang, MkdirLine(p.temporary)>>
    \o (IF IsRemote(p.intermediate)
        THEN IndexDownloadLines(p.temporary, p.intermediate) ELSE << >>)
    \o (IF IsRemote(p.source)
        THEN <<SourceCdLine(p.temporary)>>
                \o EntityEntries(p.source, entities, Len(entities))
        ELSE << >>)

upload_lines(p) ==
    <<Shebang>>
    \o (IF IsRemote(p.intermediate)
        THEN IndexUploadLines(p.temporary, p.intermediate) ELSE << >>)
    \o (IF IsRemote(p.target)
        THEN <<TargetCdLine(p.temporary)>> \o DocumentLines(p.target, Len(final_documents))
        ELSE << >>)

----------------------------------------------------------------------------
(* write_ssh_key *)

SshFile(entry) == <<".ssh/", entry.filename>>

RECURSIVE WriteSshKeys(_, _, _)
WriteSshKeys(fs, ssh_keys, n) ==
    IF n = 0 THEN fs
    ELSE WriteFile(WriteSshKeys(fs, ssh_keys, n - 1), SshFile(ssh_keys[n]),
                   ssh_keys[n].key \o <<LF>>, "0600")

----------------------------------------------------------------------------
(* The run: main() constructs a ConfigSetter and calls set_config() *)

ModulePath == <<"/opt/c360/bin">>

NoConfig == [values |-> [k \in {} |-> << >>], entities |-> << >>,
             ssh |-> << >>, loaded |-> FALSE]

\* Configuration.read_config()
read_config(st) ==
    [values |-> st.values, entities |-> st.entities, ssh |-> st.ssh, loaded |-> TRUE]

NoPaths == [temporary |-> << >>, source |-> << >>,
            intermediate |-> << >>, target |-> << >>]

\* ConfigSetter.__init__: sys.exit(1) when a prerequisite is missing,
\* otherwise the configuration store is read
Construct ==
    /\ pc = "start"
    /\ LET env1 == SetItem(environment, "PYTHONIOENCODING", <<"utf8">>)
           env2 == IF ~Contains(EnvGet(osenv, "PATH", << >>), ModulePath)
                   THEN SetItem(env1, "PATH", <<"${PATH}:">> \o ModulePath)
                   ELSE env1
           res == check_prerequisites(osenv, env2, logged)
       IN /\ environment' = res.environment
          /\ logged' = res.logged
          /\ missing_variables' = res.missing
          /\ pc' = IF res.missing > 0 THEN "exited" ELSE "constructed"
          /\ status' = IF res.missing > 0 THEN "exit 1" ELSE status
          /\ config' = IF res.missing > 0 THEN config ELSE read_config(store)
    /\ UNCHANGED <<osenv, bashrc, store, files, paths>>

\* assemble_environment; the UnboundLocalError is not caught anywhere, so
\* the interpreter ends the process with status 1
AssembleEnvironment ==
    /\ pc = "constructed"
    /\ LET r == ResolveMaster(ParseBashrc(bashrc, Len(bashrc))) IN
          /\ pc' = IF r.raised THEN "crashed" ELSE "assembled"
          /\ status' = IF r.raised THEN "exit 1" ELSE status
          /\ logged' = logged \o r.logged
          /\ environment' =
                IF r.raised THEN environment
                ELSE AssembleDerived(osenv, config, r.spark_master, environment)
    /\ UNCHANGED <<osenv, bashrc, store, config, files, missing_variables, paths>>

WriteConfig ==
    /\ pc = "assembled"
    /\ files' = WriteFile(files, C360CFG,
                          ConfigText(environment, Len(environment)), "default")
    /\ logged' = Append(logged, [level |-> "log",
                                 text |-> <<"environment written to ~/.c360cfg">>])
    /\ pc' = "config_written"
    /\ UNCHANGED <<osenv, bashrc, store, config, environment, status,
                   missing_variables, paths>>

WriteS3Config ==
    /\ pc = "config_written"
    /\ files' = WriteFile(files, S3CFG, Join(S3ConfigLines(environment), <<LF>>),
                          "default")
    /\ pc' = "s3_written"
    /\ UNCHANGED <<osenv, bashrc, store, config, environment, logged, status,
                   missing_variables, paths>>

WriteTransferScript ==
    /\ pc = "s3_written"
    /\ LET p == [temporary |-> ScriptPath(environment, "C360_TEMP_PATH"),
                 source |-> ScriptPath(environment, "C360_SOURCE_PATH"),
                 intermediate |-> ScriptPath(environment, "C360_INTERMEDIATE_PATH"),
                 target |-> ScriptPath(environment, "C360_TARGET_PATH")]
       IN /\ paths' = p
          /\ files' = WriteFile(
                        WriteFile(files, DOWNLOAD,
                                  Join(download_lines(p, config.entities), <<LF>>),
                                  "0700"),
                        UPLOAD, Join(upload_lines(p), <<LF>>), "0700")
    /\ pc' = "scripts_written"
    /\ UNCHANGED <<osenv, bashrc, store, config, environment, logged, status,
                   missing_variables>>

\* write_ssh_key, the last step of set_config; main() then returns
WriteSshKey ==
    /\ pc = "scripts_written"
    /\ files' = WriteSshKeys(files, config.ssh, Len(config.ssh))
    /\ pc' = "done"
    /\ status' = "exit 0"
    /\ UNCHANGED <<osenv, bashrc, store, config, environment, logged,
                   missing_variables, paths>>

Next ==
    \/ Construct
    \/ AssembleEnvironment
    \/ WriteConfig
    \/ WriteS3Config
    \/ WriteTransferScript
    \/ WriteSshKey

----------------------------------------------------------------------------
(* The inputs of a run: the process environment, ~/.bashrc and the         *)
(* configuration store.  Each family of inputs varies one of them and      *)
(* keeps the others at the base values.                                    *)

SeqsUpTo(S, n) == UNION {[1..k -> S] : k \in 0..n}

RECURSIVE Flatten(_)
Flatten(ss) == IF ss = << >> THEN << >> ELSE Head(ss) \o Flatten(Tail(ss))

Range(f) == {f[i] : i \in DOMAIN f}

EnvCfgNames == {EnvCfgKeys[i].name : i \in 1..Len(EnvCfgKeys)}
PathNames == {PathKeys[i].name : i \in 1..Len(PathKeys)}
CfgPaths == {EnvCfgKeys[i].path : i \in 1..Len(EnvCfgKeys)}
               \cup {PathKeys[i].path : i \in 1..Len(PathKeys)}
PathCfgPaths == {PathKeys[i].path : i \in 1..Len(PathKeys)}

BaseEnv == [k \in Prereqs \cup {"PATH"} |->
               IF k = "PATH" THEN <<"/usr/bin">> ELSE <<"v">>]

HostLine == <<"export ", SM, "_HOST", "=", "h", LF>>
HostLine2 == <<SM, "_HOST", "=", "g", LF>>
PortLine == <<SM, "_PORT", "=", "7077", LF>>
MasterPlain == <<SM, "=", "spark://", "m", ":", "7078", LF>>
MasterTemplate == <<SM, "=", "spark://", "$", SM, "_HOST", ":", "$", SM, "_PORT", LF>>
MasterHostTemplate == <<SM, "=", "spark://", "$", SM, "_HOST", ":", "7078", LF>>
MasterEmpty == <<SM, "=", LF>>
OtherLine == <<"alias ll=ls", LF>>

BashrcLines == {HostLine, HostLine2, PortLine, MasterPlain, MasterTemplate,
                MasterHostTemplate, MasterEmpty, OtherLine}

BaseBashrc == <<HostLine, PortLine, MasterPlain>>

LocalDir == <<"/", "n", "/">>

Flat(name, n) ==
    [name |-> name, has_files |-> TRUE,
     sourceFiles |-> [i \in 1..n |-> <<name, ".">> \o [j \in 1..i |-> "x"]],
     subs |-> << >>]

Bare(name) ==
    [name |-> name, has_files |-> FALSE, sourceFiles |-> << >>, subs |-> << >>]

Kpis(subs) ==
    [name |-> "kpis", has_files |-> FALSE, sourceFiles |-> << >>, subs |-> subs]

PersonChoices == {<< >>, <<Bare("persons")>>} \cup {<<Flat("persons", n)>> : n \in 0..MaxFiles}
OrgChoices == {<< >>, <<Flat("orgs", 1)>>}
KpiChoices ==
    {<< >>, <<Kpis(<< >>)>>}
      \cup {<<Kpis(<<Flat("kpi", n)>>)>> : n \in 1..MaxFiles}
      \cup {<<Kpis(<<Flat("kpi", n), Bare("empty")>>)>> : n \in 1..MaxFiles}

Catalogs == {a \o b \o c : a \in PersonChoices, b \in KpiChoices, c \in OrgChoices}

BaseCatalog == <<Flat("persons", 1), Kpis(<<Flat("kpi", 1)>>)>>

SshChoices == {<< >>, << [filename |-> "id_rsa", key |-> <<"KEY">>] >>}

BaseStore ==
    [values |-> [k \in PathCfgPaths |-> LocalDir],
     entities |-> BaseCatalog,
     ssh |-> << [filename |-> "id_rsa", key |-> <<"KEY">>] >>]

Input(e, b, st) == [osenv |-> e, bashrc |-> b, store |-> st]

\* every mandatory variable unset, set to "" or set to a value
PrereqInputs ==
    {Input([k \in {n \in Prereqs \cup {"PATH"} : n = "PATH" \/ f[n] # "unset"} |->
               IF k = "PATH" THEN <<"/usr/bin">>
               ELSE IF f[k] = "empty" THEN << >> ELSE <<"v", k>>],
           BaseBashrc, BaseStore) : f \in [Prereqs -> {"unset", "empty", "set"}]}

\* PATH unset, without and with the module's directory
PathInputs ==
    {Input([k \in Prereqs |-> <<"v">>], BaseBashrc, BaseStore)}
      \cup {Input([BaseEnv EXCEPT !["PATH"] = v], BaseBashrc, BaseStore) :
              v \in {<<"/usr/bin">>, <<"/usr/bin", ":">> \o ModulePath}}

\* the derived keys: up to MaxEnvSet of them set in the process
\* environment, up to MaxCfgSet of them present in the store
EnvValue(k) == IF k \in PathNames THEN <<"/", "e", "/">> ELSE <<"e", k>>
CfgValue(path) == IF path \in PathCfgPaths THEN <<"/", "c">> ELSE <<"c", path>>

PrecedenceInputs ==
    {Input([k \in DOMAIN BaseEnv \cup E |-> IF k \in E THEN EnvValue(k) ELSE BaseEnv[k]],
           BaseBashrc,
           [BaseStore EXCEPT !.values = [path \in C |-> CfgValue(path)]]) :
        E \in {X \in SUBSET (EnvCfgNames \cup PathNames) : Cardinality(X) <= MaxEnvSet},
        C \in {X \in SUBSET CfgPaths : Cardinality(X) <= MaxCfgSet}}

\* the host file: up to MaxLines lines
MasterInputs ==
    {Input(BaseEnv, b, BaseStore) : b \in SeqsUpTo(BashrcLines, MaxLines)}

\* the storage paths of the store: each of source, intermediate and final
\* local or remote, over every entity catalog
SamplePaths ==
    {LocalDir,
     <<"s", "3", ":", "/", "/", "b", "/">>,
     <<"s", "3", "a", ":", "/", "/", "b">>,
     <<"s", "3", "d">>}

StoreWithPaths(src, mid, fin, tmp, catalog, ssh) ==
    [values |-> [k \in PathCfgPaths |->
                    CASE k = "processing.paths.source" -> src
                      [] k = "processing.paths.intermediate" -> mid
                      [] k = "processing.paths.final" -> fin
                      [] OTHER -> tmp],
     entities |-> catalog, ssh |-> ssh]

ScriptInputs ==
    {Input(BaseEnv, BaseBashrc, StoreWithPaths(src, mid, fin, LocalDir, catalog, ssh)) :
        src \in SamplePaths, mid \in SamplePaths, fin \in SamplePaths,
        catalog \in Catalogs, ssh \in {<< >>}}
      \cup {Input(BaseEnv, BaseBashrc,
                  StoreWithPaths(LocalDir, LocalDir, LocalDir, LocalDir, BaseCatalog, ssh)) :
              ssh \in SshChoices}

\* one storage path built from up to MaxFrags fragments, in each role
Frags == {<<"s", "3">>, S3A, S3N, <<":">>, <<"/">>, <<"/", "/">>, <<"x">>}

GeneratedPaths == {Flatten(fs) : fs \in SeqsUpTo(Frags, MaxFrags)}

NormalizeInputs ==
    {Input(BaseEnv, BaseBashrc,
           [BaseStore EXCEPT !.values = [BaseStore.values EXCEPT ![role] = path]]) :
        path \in GeneratedPaths, role \in PathCfgPaths}

Inputs == PrereqInputs \cup PathInputs \cup PrecedenceInputs \cup MasterInputs
             \cup ScriptInputs \cup NormalizeInputs

Init ==
    /\ \E in \in Inputs :
          /\ osenv = in.osenv
          /\ bashrc = in.bashrc
          /\ store = in.store
    /\ pc = "start"
    /\ config = NoConfig
    /\ environment = << >>
    /\ logged = << >>
    /\ files = NoFiles
    /\ status = "running"
    /\ missing_variables = 0
    /\ paths = NoPaths

Spec == Init /\ [][Next]_vars

----------------------------------------------------------------------------
(* Properties *)

Started == pc # "start"
Assembled == pc \in {"assembled", "config_written", "s3_written",
                     "scripts_written", "done"}
ScriptsWritten == pc \in {"scripts_written", "done"}
Terminated == pc \in {"exited", "crashed", "done"}

Unset == {v \in Prereqs : v \notin DOMAIN osenv}
UnsetOrEmpty == {v \in Prereqs : v \notin DOMAIN osenv \/ osenv[v] = << >>}

TimesLogged(entry) == Cardinality({i \in 1..Len(logged) : logged[i] = entry})

PrerequisiteReport(S) ==
    /\ missing_variables = Cardinality(S)
    /\ \A v \in S : TimesLogged(MissingLog(v)) = 1
    /\ \A v \in Prereqs \ S :
          HasKey(environment, v) /\ Get(environment, v, << >>) = osenv[v]

\* C1, as stated: with S the mandatory variables left unset, the missing
\* count is |S|, each name of S is logged exactly once and every other
\* mandatory variable is in the environment table with its value.
C1_AsStated == Started => PrerequisiteReport(Unset)

\* C1, amended: the same with S the mandatory variables that are unset or
\* set to the empty string.
C1_UnsetOrEmpty == Started => PrerequisiteReport(UnsetOrEmpty)

C1_Witness ==
    /\ pc = "exited"
    /\ missing_variables = 2
    /\ "CB_HOST" \notin DOMAIN osenv
    /\ "CB_USER" \in DOMAIN osenv /\ osenv["CB_USER"] = << >>
    /\ HasKey(environment, "CB_BUCKET")

OutputFiles ==
    {C360CFG, S3CFG, DOWNLOAD, UPLOAD}
       \cup {SshFile(store.ssh[i]) : i \in 1..Len(store.ssh)}

\* C2: with a mandatory variable missing the run ends with a non-zero
\* status, no file written and the configuration store not read; with none
\* missing the run ends with every output file written.
C2_FatalOrComplete ==
    /\ (Started /\ UnsetOrEmpty # {}) =>
          /\ pc = "exited" /\ status = "exit 1"
          /\ DOMAIN files = {} /\ ~config.loaded
    /\ (Terminated /\ UnsetOrEmpty = {}) =>
          /\ pc = "done" /\ status = "exit 0"
          /\ OutputFiles \subseteq DOMAIN files

FirstPresent(key, lower) ==
    IF key.name \in DOMAIN osenv THEN osenv[key.name] ELSE lower

\* C3: every derived key holds the process-environment value if set, else
\* the configuration-store value if present, else the default (the path
\* keys with their trailing separator).
C3_Precedence ==
    Assembled =>
       /\ \A i \in 1..Len(EnvCfgKeys) :
             Get(environment, EnvCfgKeys[i].name, << >>) =
                FirstPresent(EnvCfgKeys[i],
                    CfgGet(store, EnvCfgKeys[i].path,
                           Default(osenv, EnvCfgKeys[i].name)))
       /\ \A i \in 1..Len(PathKeys) :
             Get(environment, PathKeys[i].name, << >>) =
                FirstPresent(PathKeys[i],
                    strappend(CfgGet(store, PathKeys[i].path, << >>), Slash))

Parsed == ParseBashrc(bashrc, Len(bashrc))

AssembleReturned == pc \notin {"start", "constructed", "exited"}

\* C4: with host and port lines and no master line in the host file,
\* SPARK_MASTER is spark://host:port and the remaining keys are assembled.
C4_Synthesized ==
    (AssembleReturned /\ ~Parsed.master_bound
        /\ Parsed.spark_host # << >> /\ Parsed.spark_port # << >>) =>
       /\ Assembled
       /\ Get(environment, SM, << >>) =
             <<"spark://">> \o Parsed.spark_host \o <<":">> \o Parsed.spark_port
       /\ HasKey(environment, "C360_LOCAL_TARGET_PATH")

Substituted(st) ==
    Replace(Replace(st.spark_master, HostPlaceholder, st.spark_host),
            PortPlaceholder, st.spark_port)

Referenced(st) ==
    /\ Contains(st.spark_master, HostPlaceholder) => st.spark_host # << >>
    /\ Contains(st.spark_master, PortPlaceholder) => st.spark_port # << >>

\* C5: a master value without placeholder is used verbatim, one with
\* placeholders has the parsed host and port substituted into them (the
\* referenced ones being present in the host file).
C5_MasterPresent ==
    (AssembleReturned /\ Parsed.master_bound /\ Parsed.spark_master # << >>
        /\ Referenced(Parsed)) =>
       /\ Assembled
       /\ Get(environment, SM, << >>) =
             IF Contains(Parsed.spark_master, <<"$">>)
             THEN Substituted(Parsed) ELSE Parsed.spark_master

RemainingKeys ==
    EnvCfgNames \cup PathNames \cup {LocalKeys[i].name : i \in 1..Len(LocalKeys)}

\* C6: with no master value and the host or the port missing, the error is
\* logged with the three raw values and every remaining derived key is in
\* the environment table.
C6_NonFatal ==
    (AssembleReturned
        /\ (~Parsed.master_bound \/ Parsed.spark_master = << >>)
        /\ (Parsed.spark_host = << >> \/ Parsed.spark_port = << >>)) =>
       /\ Assembled
       /\ \A i \in 1..4 : TimesLogged(UnresolvableLog(Parsed)[i]) = 1
       /\ \A k \in RemainingKeys : HasKey(environment, k)

Text(name) == files[name].text

SchemeMarker == <<"s", "3", ":", "/", "/">>

IndexBlockEmitted ==
    Contains(Text(DOWNLOAD), identifier_filename)
       \/ Contains(Text(UPLOAD), identifier_filename)
SourceBlockEmitted == Contains(Text(DOWNLOAD), <<"raw\" ] && cd ">>)
TargetBlockEmitted == Contains(Text(UPLOAD), <<"json || (echo \"Cannot find ">>)

\* C7: each staging block is emitted if and only if its normalized path
\* starts with s3://.
C7_Classification ==
    ScriptsWritten =>
       /\ IndexBlockEmitted <=> StartsWith(paths.intermediate, SchemeMarker)
       /\ SourceBlockEmitted <=> StartsWith(paths.source, SchemeMarker)
       /\ TargetBlockEmitted <=> StartsWith(paths.target, SchemeMarker)

Lines(name) == SplitLines(Text(name))

Guarded(line) ==
    /\ line # << >>
    /\ \/ line[1] \in {GuardD, GuardS}
       \/ line[1] = "cd " /\ Contains(line, <<"json || (echo \"Cannot find ">>)

IsMkdir(line) == line # << >> /\ line[1] = "mkdir -p "
IsFetch(line) == line # << >> /\ line[1] = Fetch

\* the fetch lines of the source entities (not the index archive)
EntityFetchLines ==
    LET ls == Lines(DOWNLOAD) IN
    Cardinality({i \in 1..Len(ls) :
                    IsFetch(ls[i]) /\ ~Contains(ls[i], identifier_filename)})

AllGuarded(name, Excepted(_)) ==
    LET ls == Lines(name) IN
    /\ ls[1] = Shebang
    /\ \A i \in 2..Len(ls) : ls[i] = << >> \/ Guarded(ls[i]) \/ Excepted(ls[i])

NoLine(line) == FALSE
MkdirOrFetch(line) == IsMkdir(line) \/ IsFetch(line)

\* C8, as stated: every command line of both scripts after the
\* interpreter marker is existence-guarded.
C8_AsStated ==
    ScriptsWritten => AllGuarded(DOWNLOAD, NoLine) /\ AllGuarded(UPLOAD, NoLine)

\* C8, amended: every command line of the upload script after the
\* interpreter marker is existence-guarded, and so is every command line of
\* the download script except the mkdir -p line and the s3cmd get lines.
C8_GuardedExceptMkdirAndFetch ==
    ScriptsWritten =>
       AllGuarded(DOWNLOAD, MkdirOrFetch) /\ AllGuarded(UPLOAD, NoLine)

C8_Witness ==
    /\ pc = "done"
    /\ IsRemote(paths.intermediate) /\ IsRemote(paths.source) /\ IsRemote(paths.target)
    /\ Len(Lines(UPLOAD)) = 13
    /\ EntityFetchLines = 3

RECURSIVE LeafFiles(_)
LeafFiles(holders) ==
    IF holders = << >> THEN 0
    ELSE (IF Head(holders).name = "kpis"
          THEN LeafFiles(Head(holders).subs)
          ELSE IF Head(holders).has_files THEN Len(Head(holders).sourceFiles) ELSE 0)
         + LeafFiles(Tail(holders))

\* C9: the download script has one fetch line per leaf file of the catalog
\* when the source path is remote and none when it is local.
C9_SchemaTolerance ==
    ScriptsWritten =>
       EntityFetchLines =
          IF StartsWith(paths.source, SchemeMarker)
          THEN LeafFiles(config.entities) ELSE 0

\* normalization as the claim describes it: only a scheme marker at the
\* start of the path is rewritten
RewrittenAtStart(path) ==
    IF StartsWith(path, S3A) \/ StartsWith(path, S3N)
    THEN S3 \o SubSeq(path, Len(S3A) + 1, Len(path))
    ELSE path

\* normalization as the program applies it to a path of the store
Normalized(path) == UnifyScheme(strappend(path, Slash))

RawPath(role) ==
    CfgGet(config,
           CASE role = "source" -> "processing.paths.source"
             [] role = "intermediate" -> "processing.paths.intermediate"
             [] role = "target" -> "processing.paths.final"
             [] OTHER -> "processing.internal.temporary",
           << >>)

\* C10: a normalized path is its raw path with a leading s3a: or s3n:
\* marker rewritten to s3:, everything else unchanged, and one trailing
\* separator appended if there is none; normalizing twice is normalizing
\* once.
C10_Normalization ==
    ScriptsWritten =>
       \A role \in DOMAIN paths :
          /\ paths[role] = strappend(RewrittenAtStart(RawPath(role)), Slash)
          /\ Normalized(paths[role]) = paths[role]

====
